---- MODULE Spec2Model ----
(***************************************************************************)
(* Model of the geocoding lookup tool: the token-bucket rate limiter       *)
(* (rate_limiter.py), the cached, rate-limited HTTP fetch                  *)
(* (AddressService._fetch_from_api in app.py), the validators              *)
(* (validators.py) and the resolution pipeline (AddressService.search).    *)
(*                                                                         *)
(* Time is discrete: one tick is 1/TicksPerSec second.  The limiter's      *)
(* float `tokens` is kept in units of 1/TicksPerSec token, so that with    *)
(* the refill rate of 1 token per second one tick refills one unit.        *)
(***************************************************************************)
EXTENDS Integers, Sequences, FiniteSets, TLC

VARIABLES
    now,          \* time.time(), in ticks
    tokens,       \* TokenBucketRateLimiter.tokens, in 1/TicksPerSec token
    last_update,  \* TokenBucketRateLimiter.last_update, in ticks
    lock,         \* holder of TokenBucketRateLimiter.lock, or NoThread
    pc,           \* per thread: where it is in acquire / _fetch_from_api
    blocking,     \* per thread: the `blocking` argument of its acquire call
    key,          \* per thread: the cache key of its fetch call, or NoKey
    sleep_from,   \* per thread: the time its time.sleep(wait_time) began
    wait_time,    \* per thread: the local wait_time of acquire, in ticks
    slept,        \* per thread: sleeps done by the acquire call in progress
    acq_ret,      \* per thread: what acquire returned to its fetch call
    fetch_ret,    \* per thread: outcome of its fetch call, until taken
    answer,       \* per thread, history: what the upstream answered to it
    cache,        \* st.cache_data store of _fetch_from_api: key -> payload
    callers,      \* history: the threads that have called acquire
    acqLog,       \* history: the acquire calls that returned, in order
    reqLog,       \* history: the outbound HTTP requests, in order
    calls,        \* history: number of calls started so far
    spc,          \* where the session's search call is
    raw_query,    \* search: its argument
    local,        \* search: its locals and those of _reverse_geocode
    search_ret,   \* what the last search returned or raised
    fetched,      \* history: URLs of the fetch calls of the search
    last_result,  \* st.session_state.last_result
    shown         \* history: what was on display after each submission

limiterVars == <<tokens, last_update, lock>>
threadVars  == <<pc, blocking, key, sleep_from, wait_time, slept, acq_ret,
                 fetch_ret, answer>>
histVars    == <<callers, acqLog, reqLog, calls>>
searchVars  == <<spc, raw_query, local, search_ret, fetched, last_result,
                 shown>>
vars == <<now, limiterVars, threadVars, cache, histVars, searchVars>>

----------------------------------------------------------------------------
(* Bounds of the model *)

NumThreads == 2
MaxCalls == 3
MaxTime == 3
TicksPerSec == 2
MaxShort == 2
MaxSanitized == 4
MaxSubmissions == 2

(* Program constants *)

MAX_REQUESTS_PER_SECOND == 1
Capacity == 1
MIN_QUERY_LENGTH == 1
MAX_QUERY_LENGTH == 500
MIN_LATITUDE == -90
MAX_LATITUDE == 90
MIN_LONGITUDE == -180
MAX_LONGITUDE == 180

Threads == 1..NumThreads
NoThread == 0
NoKey == [url |-> "none"]

OSM_SEARCH_URL == "https://nominatim.openstreetmap.org/search"
OSM_REVERSE_URL == "https://nominatim.openstreetmap.org/reverse"

Min(a, b) == IF a <= b THEN a ELSE b
Max(a, b) == IF a >= b THEN a ELSE b

\* One whole token, in the unit `tokens` is kept in.
OneToken == TicksPerSec

----------------------------------------------------------------------------
(* TokenBucketRateLimiter *)

AddTokensUnclipped(tk, lu, t) ==
    [tokens |-> tk + (t - lu) * MAX_REQUESTS_PER_SECOND, last_update |-> t]

AddTokensStaleStamp(tk, lu, t) ==
    [tokens |-> Min(Capacity * OneToken,
                    tk + (t - lu) * MAX_REQUESTS_PER_SECOND),
     last_update |-> lu]

\* _add_tokens: the limiter state after a refill at time t.
AddTokens(tk, lu, t) ==
    [tokens |-> Min(Capacity * OneToken,
                    tk + (t - lu) * MAX_REQUESTS_PER_SECOND),
     last_update |-> t]

ConsumeNothing(tk) == tk

\* `self.tokens -= 1`
Consume(tk) == tk - OneToken

\* wait_time = (1 - self.tokens) / self.max_rate, rounded up to whole ticks
WaitTime(tk) ==
    ((OneToken - tk) + MAX_REQUESTS_PER_SECOND - 1)
        \div MAX_REQUESTS_PER_SECOND

LockKeptWhileSleeping(t) == t

\* Holder of the lock once the first `with self.lock:` block is left for the
\* sleep: the block's exit releases it.
LockWhileSleeping(t) == NoThread

\* Where a thread goes when its acquire call returns: a direct caller is
\* done, _fetch_from_api goes on to the request whatever was returned.
AfterAcquire(t) == IF key[t] = NoKey THEN "idle" ELSE "request"

\* History: acquire returned `ok`, decided at time `now`.
LogAcquire(t, ok) ==
    Append(acqLog, [blocking |-> blocking[t], at |-> now, ok |-> ok])

\* acquire(blocking) called directly on the shared limiter.
CallAcquire(t, b) ==
    /\ pc[t] = "idle"
    /\ calls < MaxCalls
    /\ now <= MaxTime
    /\ calls' = calls + 1
    /\ callers' = callers \cup {t}
    /\ pc' = [pc EXCEPT ![t] = "acq_enter"]
    /\ blocking' = [blocking EXCEPT ![t] = b]
    /\ UNCHANGED <<now, limiterVars, key, sleep_from, wait_time, slept,
                   acq_ret, fetch_ret, answer, cache, acqLog, reqLog>>
    /\ UNCHANGED searchVars

\* `with self.lock:` (lines 33 and 50): enter when the lock is free.
AcqLock(t, from, to) ==
    /\ pc[t] = from
    /\ lock = NoThread
    /\ lock' = t
    /\ pc' = [pc EXCEPT ![t] = to]
    /\ UNCHANGED <<now, tokens, last_update, blocking, key, sleep_from,
                   wait_time, slept, acq_ret, fetch_ret, answer, cache, histVars>>
    /\ UNCHANGED searchVars

AcqLock1(t) == AcqLock(t, "acq_enter", "acq_cs1")

AcqLock2(t) == AcqLock(t, "acq_enter2", "acq_cs2")

\* The acquire call of thread t returns `ok`, leaving the locked block;
\* its locals are gone, and _fetch_from_api does not look at the value.
AcqReturn(t, ok) ==
    /\ lock' = NoThread
    /\ acqLog' = LogAcquire(t, ok)
    /\ pc' = [pc EXCEPT ![t] = AfterAcquire(t)]
    /\ acq_ret' = [acq_ret EXCEPT ![t] = (key[t] # NoKey /\ ok)]
    /\ slept' = [slept EXCEPT ![t] = 0]
    /\ sleep_from' = [sleep_from EXCEPT ![t] = 0]
    /\ wait_time' = [wait_time EXCEPT ![t] = 0]
    /\ blocking' = [blocking EXCEPT ![t] = TRUE]

\* The first locked block of acquire, lines 33-46.
AcqCs1(t) ==
    /\ pc[t] = "acq_cs1"
    /\ LET r == AddTokens(tokens, last_update, now) IN
       /\ last_update' = r.last_update
       /\ IF r.tokens >= OneToken
          THEN /\ tokens' = Consume(r.tokens)
               /\ AcqReturn(t, TRUE)
          ELSE IF ~blocking[t]
          THEN /\ tokens' = r.tokens
               /\ AcqReturn(t, FALSE)
          ELSE /\ tokens' = r.tokens
               /\ wait_time' = [wait_time EXCEPT ![t] = WaitTime(r.tokens)]
               /\ sleep_from' = [sleep_from EXCEPT ![t] = now]
               /\ slept' = [slept EXCEPT ![t] = @ + 1]
               /\ lock' = LockWhileSleeping(t)
               /\ pc' = [pc EXCEPT ![t] = "acq_sleep"]
               /\ UNCHANGED <<acqLog, blocking, acq_ret>>
    /\ UNCHANGED <<now, key, fetch_ret, answer, cache, callers, reqLog, calls>>
    /\ UNCHANGED searchVars

\* time.sleep(wait_time), line 48: returns no earlier than wait_time later.
AcqWake(t) ==
    /\ pc[t] = "acq_sleep"
    /\ now >= sleep_from[t] + wait_time[t]
    /\ pc' = [pc EXCEPT ![t] = "acq_enter2"]
    /\ UNCHANGED <<now, limiterVars, blocking, key, sleep_from, wait_time,
                   slept, acq_ret, fetch_ret, answer, cache, histVars>>
    /\ UNCHANGED searchVars

\* The second locked block of acquire, lines 50-58.
AcqCs2(t) ==
    /\ pc[t] = "acq_cs2"
    /\ LET r == AddTokens(tokens, last_update, now)
           ok == r.tokens >= OneToken IN
       /\ last_update' = r.last_update
       /\ tokens' = IF ok THEN Consume(r.tokens) ELSE r.tokens
       /\ AcqReturn(t, ok)
    /\ UNCHANGED <<now, key, fetch_ret, answer, cache, callers, reqLog, calls>>
    /\ UNCHANGED searchVars

\* The wall clock advances.  It stops at MaxTime, except that a sleeping
\* thread is always let to reach the end of its sleep.
Tick ==
    /\ \/ now < MaxTime
       \/ \E t \in Threads :
            pc[t] = "acq_sleep" /\ now < sleep_from[t] + wait_time[t]
    /\ now' = now + 1
    /\ UNCHANGED <<limiterVars, threadVars, cache, histVars>>
    /\ UNCHANGED searchVars

----------------------------------------------------------------------------
(* Upstream service: what one HTTP exchange can produce *)

\* An absent value (Python None, a missing key) is <<>>, a present one <<v>>.
None == <<>>
Some(v) == <<v>>

\* The `address` member of a JSON object: missing, null, or an object with
\* an optional postcode.
AddressAbsent == [kind |-> "absent", postcode |-> None]
AddressNull == [kind |-> "null", postcode |-> None]
AddressDict(pcd) == [kind |-> "dict", postcode |-> pcd]

Postcodes == {None, Some("6801294"), Some("")}
Addresses == {AddressAbsent} \cup {AddressDict(p) : p \in Postcodes}

\* Parsed JSON bodies: an object with optional lat, lon and display_name
\* and an address; the empty object; a list of objects; null.
JsonDict(la, lo, dn, ad) ==
    [type |-> "dict", lat |-> la, lon |-> lo, display_name |-> dn,
     address |-> ad]
JsonEmptyDict == [type |-> "dict_empty"]
JsonList(xs) == [type |-> "list", items |-> xs]
JsonNull == [type |-> "null"]

DisplayNames == {None, Some("Kishon 87, Tel Aviv")}

\* Answers of the reverse endpoint.
ReversePayloads ==
    {JsonDict(None, None, Some("Kishon 87, Tel Aviv"), ad)
        : ad \in Addresses \cup {AddressNull}}
    \cup {JsonDict(None, None, None, AddressAbsent), JsonEmptyDict,
          JsonList(<<JsonEmptyDict>>), JsonNull}

\* Items of a search answer.
Items ==
    {JsonDict(la, Some(<<"3", "4", ".", "8">>), dn, ad)
        : la \in {None, Some(<<"3", "2", ".", "1">>)},
          dn \in DisplayNames,
          ad \in {AddressAbsent, AddressDict(Some("6801294"))}}

\* The items that lack a postcode or a display name.
PartialItems ==
    {i \in Items : i.lat # None /\ (i.display_name = None) # (i.address = AddressAbsent)}

\* Items the search endpoint does not promise but JSON allows: a latitude
\* out of range or not a number, an address that is null, an empty
\* postcode.
OddItems ==
    {JsonDict(Some(<<"9", "5", ".", "5">>), Some(<<"3", "4", ".", "8">>),
              Some("Kishon 87, Tel Aviv"), AddressDict(Some("6801294"))),
     JsonDict(Some(<<"9", "5", ".", "5">>), Some(<<"3", "4", ".", "8">>),
              None, AddressAbsent),
     JsonDict(Some(<<"n", "a", "n", "a">>), Some(<<"3", "4", ".", "8">>),
              None, AddressAbsent),
     JsonDict(Some(<<"3", "2", ".", "1">>), Some(<<"3", "4", ".", "8">>),
              Some("Kishon 87, Tel Aviv"), AddressNull),
     JsonDict(None, Some(<<"3", "4", ".", "8">>),
              Some("Kishon 87, Tel Aviv"), AddressNull),
     JsonDict(Some(<<"3", "2", ".", "1">>), Some(<<"3", "4", ".", "8">>),
              Some("Kishon 87, Tel Aviv"), AddressDict(Some("")))}

\* The item j as the second of an answer, at a latitude of its own.
Second(j) == [j EXCEPT !.lat = Some(<<"3", "2", ".", "2">>)]

\* The places the search endpoint knows: for any other query its answer
\* is the empty list.
KnownPlaces == {<<"t", "e", "l", " ", "a", "v", "i", "v">>}

\* Answers of the search endpoint to the query q.
SearchPayloads(q) ==
    IF q \notin KnownPlaces THEN {JsonList(<<>>)}
    ELSE {JsonList(<<>>), JsonNull,
          JsonDict(None, None, None, AddressAbsent)}
         \cup {JsonList(<<i>>) : i \in Items \cup OddItems}
         \cup {JsonList(<<i, Second(j)>>) : i \in Items, j \in PartialItems}

\* The keys of the cached calls: URL and query parameters.
SearchKey(q) ==
    [url |-> OSM_SEARCH_URL, q |-> q, lat |-> <<>>, lon |-> <<>>,
     addressdetails |-> TRUE]
ReverseKey(la, lo, details) ==
    [url |-> OSM_REVERSE_URL, q |-> <<>>, lat |-> la, lon |-> lo,
     addressdetails |-> details]

Payloads(k) ==
    IF k.url = OSM_REVERSE_URL THEN ReversePayloads ELSE SearchPayloads(k.q)

\* 300 stands for the statuses below 400 that are not 2xx.
StatusCodes == {200, 300, 429, 500}

\* What requests.get(...) followed by raise_for_status() and json() can meet.
Responses(k) ==
    {[kind |-> "timeout"], [kind |-> "connection_error"]}
    \cup {[kind |-> "http", status |-> s, json |-> FALSE]
            : s \in StatusCodes}
    \cup {[kind |-> "http", status |-> 200, json |-> TRUE, data |-> d]
            : d \in Payloads(k)}

\* The status line of an answer, or what came instead of one.
Answer(resp) ==
    [kind |-> resp.kind,
     status |-> IF resp.kind = "http" THEN resp.status ELSE 0,
     json |-> IF resp.kind = "http" THEN resp.json ELSE FALSE]
NoAnswer == [kind |-> "none", status |-> 0, json |-> FALSE]

----------------------------------------------------------------------------
(* AddressService._fetch_from_api *)

FetchOk(d) == [ok |-> TRUE, data |-> d, err |-> "none", status_code |-> None]
FetchErr(e, sc) == [ok |-> FALSE, data |-> None, err |-> e, status_code |-> sc]
NoResult == [ok |-> FALSE, data |-> None, err |-> "not_called",
             status_code |-> None]

\* Classes of the exception a failed exchange raises inside the try block
\* (the decoding error of the HTTP library derives from RequestException and
\* from json.JSONDecodeError).
Raised(resp) ==
    IF resp.kind = "timeout" THEN {"Timeout", "RequestException"}
    ELSE IF resp.kind = "connection_error"
         THEN {"ConnectionError", "RequestException"}
    ELSE IF resp.status = 429 THEN {"RateLimitExceededError"}
    ELSE IF resp.status >= 400 THEN {"HTTPError", "RequestException"}
    ELSE IF ~resp.json THEN {"JSONDecodeError", "RequestException"}
    ELSE {}

HandlersGenericFirst ==
    << [catches |-> "RequestException", raises |-> "APIConnectionError"],
       [catches |-> "Timeout",          raises |-> "APIConnectionError"],
       [catches |-> "HTTPError",        raises |-> "APIConnectionError"],
       [catches |-> "JSONDecodeError",  raises |-> "InvalidResponseError"] >>

\* The except clauses of lines 100-120, in source order.
Handlers ==
    << [catches |-> "Timeout",          raises |-> "APIConnectionError"],
       [catches |-> "HTTPError",        raises |-> "APIConnectionError"],
       [catches |-> "RequestException", raises |-> "APIConnectionError"],
       [catches |-> "JSONDecodeError",  raises |-> "InvalidResponseError"] >>

\* Index of the first except clause that catches one of `classes`, or 0.
FirstHandler(classes) ==
    LET hits == {i \in 1..Len(Handlers) : Handlers[i].catches \in classes}
    IN IF hits = {} THEN 0
       ELSE CHOOSE i \in hits : \A j \in hits : i <= j

\* Lines 77-120: what the function body returns or raises for an exchange.
FetchOutcome(resp) ==
    LET classes == Raised(resp)
        h == FirstHandler(classes) IN
    IF classes = {} THEN FetchOk(resp.data)
    ELSE IF h = 0 THEN FetchErr("RateLimitExceededError", None)
    ELSE IF Handlers[h].catches = "HTTPError"
         THEN FetchErr(Handlers[h].raises, Some(resp.status))
    ELSE FetchErr(Handlers[h].raises, None)

\* st.cache_data: the store after the function body ended with `outcome`.
CacheStoreAlways(c, k, outcome) ==
    [x \in DOMAIN c \cup {k} |-> IF x = k THEN outcome.data ELSE c[x]]

CacheStore(c, k, outcome) ==
    IF outcome.ok
    THEN [x \in DOMAIN c \cup {k} |-> IF x = k THEN outcome.data ELSE c[x]]
    ELSE c

\* Threads running the function body for key k: st.cache_data computes a
\* missing value under a per-key lock.
BodyPcs == {"acq_enter", "acq_cs1", "acq_sleep", "acq_enter2", "acq_cs2",
            "request", "await"}

Computing(k) == {t \in Threads : key[t] = k /\ pc[t] \in BodyPcs}

\* Where a call of the cached function goes after the cache lookup.
Lookup(c, k) == IF k \in DOMAIN c THEN "fetch_done" ELSE "cache_miss"

\* A call _fetch_from_api(url, params, force_english) by thread t: the
\* cache_data wrapper looks the key up; a hit returns the stored payload.
FetchCall(t, k) ==
    /\ key' = [key EXCEPT ![t] = k]
    /\ pc' = [pc EXCEPT ![t] = Lookup(cache, k)]
    /\ fetch_ret' = [fetch_ret EXCEPT ![t] =
                       IF k \in DOMAIN cache THEN FetchOk(cache[k])
                       ELSE NoResult]
    /\ answer' = [answer EXCEPT ![t] = NoAnswer]
    /\ UNCHANGED <<now, limiterVars, blocking, sleep_from, wait_time, slept,
                   acq_ret, cache, callers, acqLog, reqLog>>

\* On a miss the wrapper takes the key's compute lock, looks again, and
\* runs the body, which starts with rate_limiter.acquire(blocking=True).
CacheMiss(t) ==
    /\ pc[t] = "cache_miss"
    /\ Computing(key[t]) = {}
    /\ IF key[t] \in DOMAIN cache
       THEN /\ pc' = [pc EXCEPT ![t] = "fetch_done"]
            /\ fetch_ret' = [fetch_ret EXCEPT ![t] = FetchOk(cache[key[t]])]
            /\ UNCHANGED <<blocking, callers>>
       ELSE /\ pc' = [pc EXCEPT ![t] = "acq_enter"]
            /\ blocking' = [blocking EXCEPT ![t] = TRUE]
            /\ callers' = callers \cup {t}
            /\ UNCHANGED fetch_ret
    /\ UNCHANGED <<now, limiterVars, key, sleep_from, wait_time, slept,
                   acq_ret, answer, cache, acqLog, reqLog, calls>>
    /\ UNCHANGED searchVars

\* requests.get(...) is issued, line 80.
IssueRequest(t) ==
    /\ pc[t] = "request"
    /\ reqLog' = Append(reqLog, [token |-> acq_ret[t]])
    /\ acq_ret' = [acq_ret EXCEPT ![t] = FALSE]
    /\ pc' = [pc EXCEPT ![t] = "await"]
    /\ UNCHANGED <<now, limiterVars, blocking, key, sleep_from, wait_time,
                   slept, fetch_ret, answer, cache, callers, acqLog, calls>>
    /\ UNCHANGED searchVars

\* The exchange ends, lines 80-120; the wrapper stores a returned value.
Response(t) ==
    /\ pc[t] = "await"
    /\ \E resp \in Responses(key[t]) :
         /\ fetch_ret' = [fetch_ret EXCEPT ![t] = FetchOutcome(resp)]
         /\ answer' = [answer EXCEPT ![t] = Answer(resp)]
         /\ cache' = CacheStore(cache, key[t], FetchOutcome(resp))
    /\ pc' = [pc EXCEPT ![t] = "fetch_done"]
    /\ UNCHANGED <<now, limiterVars, blocking, key, sleep_from, wait_time,
                   slept, acq_ret, histVars>>
    /\ UNCHANGED searchVars

\* An entry leaves the cache: its TTL ran out, or max_entries evicted it.
CacheExpire(k) ==
    /\ k \in DOMAIN cache
    /\ cache' = [x \in DOMAIN cache \ {k} |-> cache[x]]
    /\ UNCHANGED <<now, limiterVars, threadVars, histVars>>
    /\ UNCHANGED searchVars

----------------------------------------------------------------------------
(* Strings are sequences of one-character strings *)

DigitSeq == <<"0", "1", "2", "3", "4", "5", "6", "7", "8", "9">>
Digits == {DigitSeq[i] : i \in 1..10}
LowerSeq == <<"a", "b", "c", "d", "e", "f", "g", "h", "i", "j", "k", "l", "m",
             "n", "o", "p", "q", "r", "s", "t", "u", "v", "w", "x", "y", "z">>
UpperSeq == <<"A", "B", "C", "D", "E", "F", "G", "H", "I", "J", "K", "L", "M",
             "N", "O", "P", "Q", "R", "S", "T", "U", "V", "W", "X", "Y", "Z">>
Letters == {LowerSeq[i] : i \in 1..26} \cup {UpperSeq[i] : i \in 1..26}

\* \s of the regular expressions, and what str.strip / str.split remove
WsChars == {" ", "\t", "\n", "\r"}
\* \w (the Hebrew block of the whitelist, letters of which \w covers too,
\* is left out: the queries of the model are ASCII)
WordChars == Letters \cup Digits \cup {"_"}
\* the rest of the whitelist of sanitize: " ' . , ( ) + -
KeptPunct == {"\"", "'", ".", ",", "(", ")", "+", "-"}

IsWs(c) == c \in WsChars
IsDigit(c) == c \in Digits

DigitVal(c) == (CHOOSE i \in 1..10 : DigitSeq[i] = c) - 1

\* s repeated: n copies of the character c
Rep(c, n) == [i \in 1..n |-> c]

\* First index at or after i whose character is not in S, or Len(s) + 1.
SkipSet(s, i, S) ==
    IF \A j \in i..Len(s) : s[j] \in S THEN Max(i, Len(s) + 1)
    ELSE CHOOSE j \in i..Len(s) :
            s[j] \notin S /\ \A k \in i..(j - 1) : s[k] \in S

\* Last index whose character is not in S, or 0.
LastOutside(s, S) ==
    IF \A j \in 1..Len(s) : s[j] \in S THEN 0
    ELSE Len(s) - (CHOOSE n \in 0..(Len(s) - 1) :
                      /\ s[Len(s) - n] \notin S
                      /\ \A m \in 0..(n - 1) : s[Len(s) - m] \in S)

SkipWs(s, i) == SkipSet(s, i, WsChars)

\* str.strip()
Strip(s) == SubSeq(s, SkipWs(s, 1), LastOutside(s, WsChars))

----------------------------------------------------------------------------
(* QueryValidator *)

ValidateUntrimmed(query) ==
    IF query = <<>> THEN [ok |-> FALSE, err |-> "ValidationError", q |-> <<>>]
    ELSE IF Len(query) < MIN_QUERY_LENGTH \/ Len(query) > MAX_QUERY_LENGTH
         THEN [ok |-> FALSE, err |-> "ValidationError", q |-> <<>>]
    ELSE [ok |-> TRUE, err |-> "none", q |-> Strip(query)]

ValidateNoMaximum(query) ==
    IF query = <<>> THEN [ok |-> FALSE, err |-> "ValidationError", q |-> <<>>]
    ELSE LET q == Strip(query) IN
         IF Len(q) < MIN_QUERY_LENGTH
         THEN [ok |-> FALSE, err |-> "ValidationError", q |-> <<>>]
         ELSE [ok |-> TRUE, err |-> "none", q |-> q]

\* validate: the trimmed query, or the error raised
Validate(query) ==
    IF query = <<>> THEN [ok |-> FALSE, err |-> "ValidationError", q |-> <<>>]
    ELSE LET q == Strip(query) IN
         IF Len(q) < MIN_QUERY_LENGTH
         THEN [ok |-> FALSE, err |-> "ValidationError", q |-> <<>>]
         ELSE IF Len(q) > MAX_QUERY_LENGTH
         THEN [ok |-> FALSE, err |-> "ValidationError", q |-> <<>>]
         ELSE [ok |-> TRUE, err |-> "none", q |-> q]

\* re.sub(r'[^\w\s\u0590-\u05FF\d"\'.,()+-]', ' ', query), one character
Whitelisted(c) == c \in WordChars \cup WsChars \cup Digits \cup KeptPunct

Blank(c) == IF Whitelisted(c) THEN c ELSE " "

\* ' '.join(s.split()) of s[lo..hi], where last is the index of the last
\* character of s that is not whitespace: each word character stays, and
\* the first whitespace after a word becomes one space if a word follows
RECURSIVE JoinSplit(_, _, _, _)
JoinSplit(s, lo, hi, last) ==
    IF lo > hi THEN <<>>
    ELSE IF lo = hi
    THEN IF ~IsWs(s[lo]) THEN <<s[lo]>>
         ELSE IF lo > 1 /\ lo < last /\ ~IsWs(s[lo - 1]) THEN <<" ">>
         ELSE <<>>
    ELSE JoinSplit(s, lo, (lo + hi) \div 2, last)
            \o JoinSplit(s, ((lo + hi) \div 2) + 1, hi, last)

SanitizeJoinFirst(query) ==
    LET s == JoinSplit(query, 1, Len(query), LastOutside(query, WsChars))
    IN [i \in 1..Len(s) |-> Blank(s[i])]

\* sanitize
Sanitize(query) ==
    LET s == [i \in 1..Len(query) |-> Blank(query[i])]
    IN JoinSplit(s, 1, Len(s), LastOutside(s, WsChars))

----------------------------------------------------------------------------
(* Floats: sign, integer part and fraction digits without trailing zeros, *)
(* an exact decimal standing for the double                               *)

\* The fraction digits without their trailing zeros.
TrimZeros(fr) == SubSeq(fr, 1, LastOutside(fr, {"0"}))

\* Value of a run of digits.
RECURSIVE DigitsVal(_)
DigitsVal(d) ==
    IF d = <<>> THEN 0
    ELSE 10 * DigitsVal(SubSeq(d, 1, Len(d) - 1)) + DigitVal(d[Len(d)])

\* Whether float(s) accepts s, for the plain decimals [sign] digits
\* [. digits] that the queries and the payloads hold
IsNumeric(s) ==
    LET a == IF s # <<>> /\ s[1] \in {"-", "+"} THEN 2 ELSE 1
        b == SkipSet(s, a, Digits)
    IN /\ b > a
       /\ \/ b = Len(s) + 1
          \/ /\ s[b] = "."
             /\ b < Len(s)
             /\ SkipSet(s, b + 1, Digits) = Len(s) + 1

\* float(s) for such an s
ParseFloat(s) ==
    LET a == IF s[1] \in {"-", "+"} THEN 2 ELSE 1
        b == SkipSet(s, a, Digits)
    IN [neg |-> s[1] = "-",
        ip |-> DigitsVal(SubSeq(s, a, b - 1)),
        fr |-> TrimZeros(SubSeq(s, b + 1, Len(s)))]

\* Decimal digits of a natural number.
RECURSIVE NatStr(_)
NatStr(n) ==
    IF n < 10 THEN <<DigitSeq[n + 1]>>
    ELSE Append(NatStr(n \div 10), DigitSeq[(n % 10) + 1])

StrFloatUnsigned(x) ==
    NatStr(x.ip) \o <<".">> \o (IF x.fr = <<>> THEN <<"0">> ELSE x.fr)

\* str(x) of a float x (values below 0.0001, which print with an exponent,
\* do not occur)
StrFloat(x) ==
    (IF x.neg THEN <<"-">> ELSE <<>>) \o NatStr(x.ip) \o <<".">>
        \o (IF x.fr = <<>> THEN <<"0">> ELSE x.fr)

\* n <= x and x <= n for a float x and an integer n
IntLeqFloat(n, x) ==
    IF x.neg THEN x.ip < -n \/ (x.ip = -n /\ x.fr = <<>>)
    ELSE n <= x.ip

FloatLeqInt(x, n) ==
    IF x.neg THEN -n <= x.ip
    ELSE x.ip < n \/ (x.ip = n /\ x.fr = <<>>)

\* Numeric equality of floats (-0.0 == 0.0).
FloatEq(x, y) ==
    /\ x.ip = y.ip
    /\ x.fr = y.fr
    /\ (x.neg = y.neg \/ (x.ip = 0 /\ x.fr = <<>>))

----------------------------------------------------------------------------
(* CoordinateValidator *)

CoordOk(la, lo) == [ok |-> TRUE, err |-> "none", lat |-> la, lng |-> lo]
CoordErr == [ok |-> FALSE, err |-> "InvalidCoordinatesError",
             lat |-> [neg |-> FALSE, ip |-> 0, fr |-> <<>>],
             lng |-> [neg |-> FALSE, ip |-> 0, fr |-> <<>>]]

InRange(x, lo, hi) == IntLeqFloat(lo, x) /\ FloatLeqInt(x, hi)

ValidateFloatsLatOnly(la, lo) ==
    IF ~InRange(la, MIN_LATITUDE, MAX_LATITUDE) THEN CoordErr
    ELSE CoordOk(la, lo)

\* validate(lat, lng) on two floats
ValidateFloats(la, lo) ==
    IF ~InRange(la, MIN_LATITUDE, MAX_LATITUDE) THEN CoordErr
    ELSE IF ~InRange(lo, MIN_LONGITUDE, MAX_LONGITUDE) THEN CoordErr
    ELSE CoordOk(la, lo)

\* validate(lat, lng) on two strings: float() of each comes first
ValidateStrings(a, b) ==
    IF ~IsNumeric(a) \/ ~IsNumeric(b) THEN CoordErr
    ELSE ValidateFloats(ParseFloat(a), ParseFloat(b))

\* Index after the number [-+]?\d{1,3}(?:\.\d+)? matched at i, or 0.
NumEnd(s, i) ==
    LET a == IF i <= Len(s) /\ s[i] \in {"-", "+"} THEN i + 1 ELSE i
        b == Min(SkipSet(s, a, Digits), a + 3)
        c == IF b < Len(s) /\ s[b] = "." /\ IsDigit(s[b + 1])
             THEN SkipSet(s, b + 1, Digits) ELSE b
    IN IF i > Len(s) \/ b = a THEN 0 ELSE c

NoMatch == [hit |-> FALSE, g1 |-> <<>>, g2 |-> <<>>]

\* re.IGNORECASE: letters compare by their lower case
Lower(c) ==
    IF \E i \in 1..26 : UpperSeq[i] = c
    THEN LowerSeq[CHOOSE i \in 1..26 : UpperSeq[i] = c]
    ELSE c

\* Index after s[i..] if it starts with the literal, or 0.
LitEnd(s, i, lit) ==
    IF /\ i >= 1
       /\ i + Len(lit) - 1 <= Len(s)
       /\ \A k \in 1..Len(lit) : Lower(s[i + k - 1]) = lit[k]
    THEN i + Len(lit) ELSE 0

\* The rest of either pattern from the second number on: (num)\s*$
TailMatch(s, i1, e1, i2) ==
    LET e2 == IF i2 = 0 THEN 0 ELSE NumEnd(s, i2)
    IN IF e2 # 0 /\ SkipWs(s, e2) = Len(s) + 1
       THEN [hit |-> TRUE, g1 |-> SubSeq(s, i1, e1 - 1),
             g2 |-> SubSeq(s, i2, e2 - 1)]
       ELSE NoMatch

\* ^\s*(num)\s*[,\s]\s*(num)\s*$
MatchBare(s) ==
    LET i1 == SkipWs(s, 1)
        e1 == NumEnd(s, i1)
        j  == IF e1 = 0 THEN 0 ELSE SkipWs(s, e1)
        i2 == IF e1 = 0 THEN 0
              ELSE IF j <= Len(s) /\ s[j] = "," THEN SkipWs(s, j + 1)
              ELSE IF j > e1 THEN j
              ELSE 0
    IN IF e1 = 0 THEN NoMatch ELSE TailMatch(s, i1, e1, i2)

\* \s*[:=]\s* matched at i: the index after it, or 0
LabelSepEnd(s, i) ==
    LET j == SkipWs(s, i)
    IN IF i # 0 /\ j <= Len(s) /\ s[j] \in {":", "="}
       THEN SkipWs(s, j + 1) ELSE 0

\* ^\s*lat(?:itude)?\s*[:=]\s*(num)\s*[,\s]+(?:lon|lng|longitude)\s*[:=]\s*(num)\s*$
MatchLabeled(s) ==
    LET i0 == SkipWs(s, 1)
        a  == LitEnd(s, i0, <<"l", "a", "t">>)
        a2 == IF a # 0 /\ LitEnd(s, a, <<"i", "t", "u", "d", "e">>) # 0
              THEN LitEnd(s, a, <<"i", "t", "u", "d", "e">>) ELSE a
        i1 == LabelSepEnd(s, a2)
        e1 == IF i1 = 0 THEN 0 ELSE NumEnd(s, i1)
        j  == IF e1 = 0 THEN 0 ELSE SkipSet(s, e1, WsChars \cup {","})
        b  == IF e1 = 0 \/ j = e1 THEN 0
              ELSE IF LitEnd(s, j, <<"l", "o", "n", "g", "i", "t", "u", "d", "e">>) # 0
              THEN LitEnd(s, j, <<"l", "o", "n", "g", "i", "t", "u", "d", "e">>)
              ELSE IF LitEnd(s, j, <<"l", "o", "n">>) # 0
              THEN LitEnd(s, j, <<"l", "o", "n">>)
              ELSE LitEnd(s, j, <<"l", "n", "g">>)
        i2 == LabelSepEnd(s, b)
    IN IF e1 = 0 THEN NoMatch ELSE TailMatch(s, i1, e1, i2)

\* The first of two matches that hit, in the order of the patterns.
FirstHit(m1, m2) == IF m1.hit THEN m1 ELSE m2

\* The loop of parse_from_query over the patterns, on the trimmed query.
FirstMatch(s) == FirstHit(MatchBare(s), MatchLabeled(s))

NoCoords == [kind |-> "none", lat |-> CoordErr.lat, lng |-> CoordErr.lng]

\* Lines 105-113: the validated groups, or the error, which only a strict
\* call raises
ParseValidated(v, strict) ==
    IF v.ok THEN [kind |-> "coords", lat |-> v.lat, lng |-> v.lng]
    ELSE IF strict THEN [kind |-> "raise", lat |-> v.lat, lng |-> v.lng]
    ELSE NoCoords

\* Lines 101-115 for the match m, if any
ParseMatch(m, strict) ==
    IF ~m.hit THEN NoCoords
    ELSE ParseValidated(ValidateStrings(m.g1, m.g2), strict)

\* parse_from_query(query, strict): coordinates, nothing, or the error
ParseFromQuery(query, strict) ==
    ParseMatch(FirstMatch(Strip(query)), strict)

----------------------------------------------------------------------------
(* AddressService.search and _reverse_geocode, run by one session *)

ServiceThread == 1

\* The default of a missing postcode, an em dash.
EmDash == "EM DASH"

LocationData(q, ad, zip, la, lo) ==
    [original_query |-> q, address |-> ad, zip_code |-> zip,
     lat |-> la, lng |-> lo, status |-> "OK"]

\* What search returns or raises; cause is the exception a handler wrapped
\* (raise ... from e), status_code the attribute of an APIConnectionError.
Returned(rs) ==
    [kind |-> "ok", err |-> "none", results |-> rs, cause |-> "none",
     status_code |-> None]
Failed(e) ==
    [kind |-> "error", err |-> e, results |-> <<>>, cause |-> "none",
     status_code |-> None]
NoOutcome ==
    [kind |-> "none", err |-> "none", results |-> <<>>, cause |-> "none",
     status_code |-> None]

\* The exception of a fetch call, as it passes through the caller.
Reraised(ret) == [Failed(ret.err) EXCEPT !.status_code = ret.status_code]

\* The classes derived from GeoServiceException.
GeoServiceExceptions ==
    {"APIConnectionError", "RateLimitExceededError", "LocationNotFoundError",
     "InvalidCoordinatesError", "ValidationError", "InvalidResponseError"}

\* Lines 171-175: a GeoServiceException is raised again, any other
\* exception becomes an APIConnectionError.
ReverseHandler(out) ==
    IF out.kind = "error" /\ out.err \notin GeoServiceExceptions
    THEN [Failed("APIConnectionError") EXCEPT !.cause = out.err]
    ELSE out

SearchHandlerNone(out) == out

\* Lines 268-272, the same for search.
SearchHandler(out) ==
    IF out.kind = "error" /\ out.err \notin GeoServiceExceptions
    THEN [Failed("APIConnectionError") EXCEPT !.cause = out.err]
    ELSE out

ZeroFloat == [neg |-> FALSE, ip |-> 0, fr |-> <<>>]

\* The locals of search outside a call.
NoLocals ==
    [query |-> <<>>, lat_valid |-> ZeroFloat, lng_valid |-> ZeroFloat,
     search_results |-> <<>>, item |-> 0, results |-> <<>>]

TruthyUnlessNull(d) == d.type # "null"

\* Python truth of a JSON value, of an optional text, of an optional string
Truthy(d) ==
    /\ d.type # "null"
    /\ d.type # "dict_empty"
    /\ d.type = "list" => d.items # <<>>

TruthyText(o) == o # None /\ o[1] # <<>>

TruthyStr(o) == o # None /\ o[1] # ""

\* A step of search: where it goes, the fetch call it makes (if any), the
\* locals after it and, at the end, the outcome.
Goto(to, call, loc) == [to |-> to, call |-> call, local |-> loc,
                        outcome |-> NoOutcome]
Finish(out) == [to |-> "done", call |-> None, local |-> NoLocals,
                outcome |-> SearchHandler(out)]

\* Lines 141-146: the fetch call with the validated coordinates.
ReverseFetch(v, loc, to) ==
    IF ~v.ok THEN Finish(Failed(v.err))
    ELSE Goto(to, Some(ReverseKey(StrFloat(v.lat), StrFloat(v.lng), FALSE)),
              [loc EXCEPT !.lat_valid = v.lat, !.lng_valid = v.lng])

\* _reverse_geocode up to its fetch call, lines 131-146; `to` is where the
\* caller waits for it.
ReverseCall(la, lo, loc, to) == ReverseFetch(ValidateFloats(la, lo), loc, to)

\* _reverse_geocode from the return of its fetch call, lines 148-169
ReverseTry(ret, loc) ==
    IF ~ret.ok THEN Reraised(ret)
    ELSE IF ~Truthy(ret.data) THEN Failed("LocationNotFoundError")
    ELSE IF ret.data.type # "dict" THEN Failed("ValidationError")
    ELSE IF ret.data.display_name = None THEN Failed("ValidationError")
    ELSE IF ret.data.address.kind = "null" THEN Failed("AttributeError")
    ELSE Returned(<<LocationData(
            loc.query,
            ret.data.display_name[1],
            IF ret.data.address.postcode = None THEN EmDash
            ELSE ret.data.address.postcode[1],
            StrFloat(loc.lat_valid),
            StrFloat(loc.lng_valid))>>)

\* _reverse_geocode from the return of its fetch call, lines 148-175
ReverseResult(ret, loc) == ReverseHandler(ReverseTry(ret, loc))

\* Lines 189-207: the flow chosen for the sanitized query.
Route(coords, loc) ==
    IF coords.kind = "raise" THEN Finish(Failed("InvalidCoordinatesError"))
    ELSE IF coords.kind = "coords"
    THEN ReverseCall(coords.lat, coords.lng, loc, "reverse")
    ELSE Goto("search", Some(SearchKey(loc.query)), loc)

\* Lines 184-207 for the validated query.
ClassifyValid(v) ==
    IF ~v.ok THEN Finish(Failed(v.err))
    ELSE Route(ParseFromQuery(Sanitize(v.q), TRUE),
               [NoLocals EXCEPT !.query = Sanitize(v.q)])

\* search up to its first fetch call, lines 181-207
Classify(raw) == ClassifyValid(Validate(raw))

\* search from the return of the search call to the loop, lines 209-217
SearchResult(ret, loc) ==
    IF ~ret.ok THEN Finish(Reraised(ret))
    ELSE IF ~Truthy(ret.data) THEN Finish(Failed("LocationNotFoundError"))
    ELSE IF ret.data.type # "list" THEN Finish(Failed("ValidationError"))
    ELSE Goto("items", None,
              [loc EXCEPT !.search_results = ret.data.items, !.item = 1])

NextItemPrepending(loc, found) ==
    Goto("items", None,
         [loc EXCEPT !.item = @ + 1, !.results = found \o @])

\* The loop of lines 219-260 moves on to the next item.
NextItem(loc, found) ==
    Goto("items", None,
         [loc EXCEPT !.item = @ + 1, !.results = @ \o found])

\* zip_code of an item or of a reverse answer, with the default of .get
PostcodeOf(ad, default) ==
    IF ad.postcode = None THEN default ELSE ad.postcode[1]

LoopEndReturning(loc) == Finish(Returned(loc.results))

\* Lines 262-266: after the loop.
LoopEnd(loc) ==
    IF loc.results = <<>> THEN Finish(Failed("LocationNotFoundError"))
    ELSE Finish(Returned(loc.results))

\* One pass of the loop up to a fetch call, and lines 255-259 after it.
ItemStep(loc) ==
    IF loc.item > Len(loc.search_results) THEN LoopEnd(loc)
    ELSE LET it == loc.search_results[loc.item] IN
         IF it.type # "dict" \/ it.address.kind = "null"
         THEN Finish(Failed("AttributeError"))
         ELSE IF /\ TruthyText(it.lat) /\ TruthyText(it.lon)
                 /\ TruthyStr(it.display_name)
         THEN IF PostcodeOf(it.address, "") = ""
              THEN Goto("enrich",
                        Some(ReverseKey(it.lat[1], it.lon[1], TRUE)), loc)
              ELSE NextItem(loc, <<LocationData(
                       loc.query, it.display_name[1],
                       PostcodeOf(it.address, ""), it.lat[1], it.lon[1])>>)
         ELSE IF TruthyText(it.lat) /\ TruthyText(it.lon)
         THEN IF ~IsNumeric(it.lat[1]) \/ ~IsNumeric(it.lon[1])
              THEN Finish(Failed("ValueError"))
              ELSE ReverseCall(ParseFloat(it.lat[1]), ParseFloat(it.lon[1]),
                               loc, "fallback")
         ELSE NextItem(loc, <<>>)

\* The postcode taken from the reverse call of lines 229-243.
EnrichedZip(ret) ==
    IF ~ret.ok THEN EmDash
    ELSE IF ~Truthy(ret.data) THEN ""
    ELSE IF ret.data.type # "dict" \/ ret.data.address.kind = "null"
    THEN EmDash
    ELSE PostcodeOf(ret.data.address, EmDash)

\* Lines 245-253: the item with its postcode.
Enriched(zip, loc) ==
    NextItem(loc, <<LocationData(
        loc.query, loc.search_results[loc.item].display_name[1],
        IF zip # "" THEN zip ELSE EmDash,
        loc.search_results[loc.item].lat[1],
        loc.search_results[loc.item].lon[1])>>)

EnrichResultRaising(ret, loc) ==
    IF ~ret.ok THEN Finish(Reraised(ret))
    ELSE Enriched(EnrichedZip(ret), loc)

\* Lines 229-253: the item completed by the reverse call.
EnrichResult(ret, loc) == Enriched(EnrichedZip(ret), loc)

FallbackNextSkipping(r, loc) ==
    IF r.kind = "ok" THEN NextItem(loc, r.results) ELSE NextItem(loc, <<>>)

\* Lines 255-259: the results of the fallback call, or its exception.
FallbackNext(r, loc) ==
    IF r.kind = "ok" THEN NextItem(loc, r.results) ELSE Finish(r)

FallbackResult(ret, loc) == FallbackNext(ReverseResult(ret, loc), loc)

\* The service thread goes on with step s, making its fetch call if any.
Advance(s) ==
    /\ spc' = s.to
    /\ local' = s.local
    /\ search_ret' = s.outcome
    /\ IF s.call # None
       THEN /\ FetchCall(ServiceThread, s.call[1])
            /\ fetched' = Append(fetched, s.call[1].url)
       ELSE /\ fetched' = fetched
            /\ UNCHANGED <<now, limiterVars, threadVars, cache, callers,
                           acqLog, reqLog>>
    /\ UNCHANGED calls

\* The service thread takes the outcome of its fetch call and goes on.
Resume(s) ==
    /\ pc[ServiceThread] = "fetch_done"
    /\ spc' = s.to
    /\ local' = s.local
    /\ search_ret' = s.outcome
    /\ pc' = [pc EXCEPT ![ServiceThread] = "idle"]
    /\ key' = [key EXCEPT ![ServiceThread] = NoKey]
    /\ fetch_ret' = [fetch_ret EXCEPT ![ServiceThread] = NoResult]
    /\ answer' = [answer EXCEPT ![ServiceThread] = NoAnswer]
    /\ UNCHANGED <<now, limiterVars, blocking, sleep_from, wait_time, slept,
                   acq_ret, cache, histVars, fetched>>

SubmitKeeping(raw) ==
    /\ spc = "ready"
    /\ raw_query' = raw
    /\ last_result' = last_result
    /\ shown' = shown
    /\ Advance(Classify(raw))

\* The form is submitted with raw: main forgets the last result (lines
\* 513-516) and calls service.search(raw) (line 524, lines 181-207).
Submit(raw) ==
    /\ spc = "ready"
    /\ raw_query' = raw
    /\ last_result' = None
    /\ shown' = shown
    /\ Advance(Classify(raw))

ReverseDone ==
    /\ spc = "reverse"
    /\ Resume(Finish(ReverseResult(fetch_ret[ServiceThread], local)))
    /\ UNCHANGED <<raw_query, last_result, shown>>

SearchDone ==
    /\ spc = "search"
    /\ Resume(SearchResult(fetch_ret[ServiceThread], local))
    /\ UNCHANGED <<raw_query, last_result, shown>>

SearchItem ==
    /\ spc = "items"
    /\ Advance(ItemStep(local))
    /\ UNCHANGED <<raw_query, last_result, shown>>

EnrichDone ==
    /\ spc = "enrich"
    /\ Resume(EnrichResult(fetch_ret[ServiceThread], local))
    /\ UNCHANGED <<raw_query, last_result, shown>>

FallbackDone ==
    /\ spc = "fallback"
    /\ Resume(FallbackResult(fetch_ret[ServiceThread], local))
    /\ UNCHANGED <<raw_query, last_result, shown>>

----------------------------------------------------------------------------
(* The queries a session submits *)

Alphabet == {"a", "@", " ", "9", ","}

\* Every string over the alphabet of at most MaxShort characters.
ShortQueries == UNION {[1..n -> Alphabet] : n \in 0..MaxShort}

LatTexts ==
    {<<"0">>, <<"-", "0">>, <<"+", "5">>, <<"3", "1", ".", "5">>,
     <<"0", "3", "1", ".", "5", "0">>, <<"9", "0">>, <<"9", "0", ".", "0">>,
     <<"9", "0", ".", "5">>, <<"9", "1">>, <<"-", "9", "0">>,
     <<"-", "9", "1">>, <<"9", "9", "9">>}

LonTexts ==
    {<<"3", "5">>, <<"3", "5", ".", "2">>, <<"1", "8", "0">>,
     <<"1", "8", "1">>, <<"-", "1", "8", "0">>,
     <<"-", "1", "8", "0", ".", "5">>, <<"9", "9", "9">>}

Separators ==
    {<<",", " ">>, <<",">>, <<" ">>, <<" ", ",", " ">>, <<"\t">>,
     <<",", ",">>}

\* "<lat>, <lon>", and some pairs with the other separators.
PairQueries ==
    {la \o <<",", " ">> \o lo : la \in LatTexts, lo \in LonTexts}
    \cup {la \o s \o lo : la \in {<<"9", "1">>, <<"3", "1", ".", "5">>},
                          lo \in {<<"3", "5">>, <<"1", "8", "1">>},
                          s \in Separators}

\* Queries around the maximum length, in their raw and trimmed lengths.
LongQueries ==
    {Rep("a", MAX_QUERY_LENGTH),
     Rep("a", MAX_QUERY_LENGTH + 1),
     <<" ">> \o Rep("a", MAX_QUERY_LENGTH),
     <<"a">> \o Rep(" ", MAX_QUERY_LENGTH),
     Rep(" ", MAX_QUERY_LENGTH + 1),
     <<"9", "9", "9", ",">> \o Rep(" ", MAX_QUERY_LENGTH) \o <<"3", "5">>,
     <<"9", "1", ".">> \o Rep("0", MAX_QUERY_LENGTH) \o <<",", " ", "3", "5">>,
     <<"3", "1", ".">> \o Rep("0", MAX_QUERY_LENGTH) \o <<",", " ", "3", "5">>,
     <<"3", "1", ".", "5", ",", " ", "3", "5">> \o Rep(" ", MAX_QUERY_LENGTH),
     <<"9", "1", ",", " ", "3", "5">> \o Rep(" ", MAX_QUERY_LENGTH)}

\* "lat: 31.5, lon: 35" and its spellings with the other labels, with '='
\* and in capitals; one with a latitude out of range.
LabeledQueries ==
    {<<"l", "a", "t", ":", " ", "3", "1", ".", "5", ",", " ",
       "l", "o", "n", ":", " ", "3", "5">>,
     <<"l", "a", "t", "i", "t", "u", "d", "e", "=", "3", "1", ".", "5", " ",
       "l", "n", "g", "=", "3", "5">>,
     <<"L", "A", "T", ":", "3", "1", ".", "5", ",",
       "l", "o", "n", "g", "i", "t", "u", "d", "e", ":", "3", "5">>,
     <<"l", "a", "t", ":", " ", "9", "1", ",", " ",
       "l", "o", "n", ":", " ", "3", "5">>}

\* Place names, with characters that sanitize blanks.
PlaceQueries ==
    {<<"t", "e", "l", " ", "a", "v", "i", "v">>,
     <<" ", "t", "e", "l", ":", "a", "v", "i", "v", "\t">>}

Queries ==
    ShortQueries \cup PairQueries \cup LongQueries \cup LabeledQueries
        \cup PlaceQueries

----------------------------------------------------------------------------
(* Concurrent callers sharing the process-wide limiter and cache *)

FetchKeys == {SearchKey(<<"x">>), SearchKey(<<"y">>)}

CallFetch(t, k) ==
    /\ pc[t] = "idle"
    /\ calls < MaxCalls
    /\ now <= MaxTime
    /\ calls' = calls + 1
    /\ FetchCall(t, k)
    /\ UNCHANGED searchVars

\* The caller takes the outcome of its fetch call.
FetchReturn(t) ==
    /\ pc[t] = "fetch_done"
    /\ pc' = [pc EXCEPT ![t] = "idle"]
    /\ key' = [key EXCEPT ![t] = NoKey]
    /\ fetch_ret' = [fetch_ret EXCEPT ![t] = NoResult]
    /\ answer' = [answer EXCEPT ![t] = NoAnswer]
    /\ UNCHANGED <<now, limiterVars, blocking, sleep_from, wait_time,
                   slept, acq_ret, cache, histVars>>
    /\ UNCHANGED searchVars

Init ==
    /\ now = 0
    /\ tokens = Capacity * OneToken
    /\ last_update = 0
    /\ lock = NoThread
    /\ pc = [t \in Threads |-> "idle"]
    /\ blocking = [t \in Threads |-> TRUE]
    /\ key = [t \in Threads |-> NoKey]
    /\ sleep_from = [t \in Threads |-> 0]
    /\ wait_time = [t \in Threads |-> 0]
    /\ slept = [t \in Threads |-> 0]
    /\ acq_ret = [t \in Threads |-> FALSE]
    /\ fetch_ret = [t \in Threads |-> NoResult]
    /\ answer = [t \in Threads |-> NoAnswer]
    /\ cache = <<>>
    /\ callers = {}
    /\ acqLog = <<>>
    /\ reqLog = <<>>
    /\ calls = 0
    /\ spc = "ready"
    /\ raw_query = <<>>
    /\ local = NoLocals
    /\ search_ret = NoOutcome
    /\ fetched = <<>>
    /\ last_result = None
    /\ shown = <<>>

AcquireSteps(t) ==
    \/ AcqLock1(t)
    \/ AcqCs1(t)
    \/ AcqWake(t)
    \/ AcqLock2(t)
    \/ AcqCs2(t)

FetchSteps(t) ==
    \/ CacheMiss(t)
    \/ IssueRequest(t)
    \/ Response(t)

\* Concurrent sessions calling _fetch_from_api.
Next ==
    \/ \E t \in Threads, k \in FetchKeys : CallFetch(t, k)
    \/ \E t \in Threads : AcquireSteps(t)
    \/ \E t \in Threads : FetchSteps(t)
    \/ \E t \in Threads : FetchReturn(t)
    \/ \E k \in FetchKeys : CacheExpire(k)
    \/ Tick

Spec == Init /\ [][Next]_vars

\* Concurrent callers of acquire, blocking and non-blocking.
NextLimiter ==
    \/ \E t \in Threads, b \in BOOLEAN : CallAcquire(t, b)
    \/ \E t \in Threads : AcquireSteps(t)
    \/ Tick

SpecLimiter == Init /\ [][NextLimiter]_vars

\* The same callers under the scheduling the runtime gives them: the clock
\* advances, and a thread that can take a step of acquire eventually does.
SpecLimiterFair ==
    /\ Init
    /\ [][NextLimiter]_vars
    /\ WF_vars(Tick)
    /\ \A t \in Threads : WF_vars(AcquireSteps(t))

\* One session calling AddressService.search with a query.
NextSearch ==
    \/ \E raw \in Queries : Submit(raw)
    \/ ReverseDone
    \/ SearchDone
    \/ SearchItem
    \/ EnrichDone
    \/ FallbackDone
    \/ AcquireSteps(ServiceThread)
    \/ FetchSteps(ServiceThread)
    \/ \E k \in DOMAIN cache : CacheExpire(k)
    \/ Tick

SpecSearch == Init /\ [][NextSearch]_vars

\* What a session submits first: nothing, a pair, a place the search
\* endpoint knows and one it does not.
FirstQueries ==
    {<<>>, <<"0", ",", " ", "3", "5">>,
     <<"t", "e", "l", " ", "a", "v", "i", "v">>, <<"a">>}

\* What it submits after prev: the form is cleared after a known place,
\* and anything but a known place is typed after the rest.
NextQueries(prev) ==
    IF prev \in KnownPlaces
    THEN {<<>>}
    ELSE {<<>>, <<"0", ",", " ", "3", "5">>, <<"a">>}

SessionQueries ==
    IF shown = <<>> THEN FirstQueries ELSE NextQueries(raw_query)

\* main after the search, lines 526-609: the first result is kept for
\* display if there is one, and the script run ends.
Display ==
    /\ spc = "done"
    /\ spc' = "ready"
    /\ last_result' =
          IF /\ search_ret.kind = "ok"
             /\ search_ret.results # <<>>
             /\ search_ret.results[1].status = "OK"
          THEN Some(search_ret.results[1])
          ELSE last_result
    /\ shown' = Append(shown, last_result')
    /\ fetched' = <<>>
    /\ UNCHANGED <<now, limiterVars, threadVars, cache, histVars, raw_query,
                   local, search_ret>>

\* One UI session submitting the form several times.
NextSession ==
    \/ \E raw \in SessionQueries : Len(shown) < MaxSubmissions /\ Submit(raw)
    \/ Display
    \/ ReverseDone
    \/ SearchDone
    \/ SearchItem
    \/ EnrichDone
    \/ FallbackDone
    \/ AcquireSteps(ServiceThread)
    \/ FetchSteps(ServiceThread)
    \/ \E k \in DOMAIN cache : CacheExpire(k)
    \/ Tick

SpecSession == Init /\ [][NextSession]_vars

\* QueryValidator.sanitize on its own: a caller holds a string, sanitizes it
\* (query = QueryValidator.sanitize(query), as line 184 of app.py does) and
\* sanitizes the outcome once more.
SanitizeInputs ==
    UNION {[1..n -> Alphabet \cup {"\t"}] : n \in 0..MaxSanitized}
        \cup Queries

InitSanitize ==
    /\ now = 0
    /\ tokens = Capacity * OneToken
    /\ last_update = 0
    /\ lock = NoThread
    /\ pc = [t \in Threads |-> "idle"]
    /\ blocking = [t \in Threads |-> TRUE]
    /\ key = [t \in Threads |-> NoKey]
    /\ sleep_from = [t \in Threads |-> 0]
    /\ wait_time = [t \in Threads |-> 0]
    /\ slept = [t \in Threads |-> 0]
    /\ acq_ret = [t \in Threads |-> FALSE]
    /\ fetch_ret = [t \in Threads |-> NoResult]
    /\ answer = [t \in Threads |-> NoAnswer]
    /\ cache = <<>>
    /\ callers = {}
    /\ acqLog = <<>>
    /\ reqLog = <<>>
    /\ calls = 0
    /\ spc = "ready"
    /\ raw_query \in SanitizeInputs
    /\ local = NoLocals
    /\ search_ret = NoOutcome
    /\ fetched = <<>>
    /\ last_result = None
    /\ shown = <<>>

SanitizeQuery ==
    /\ spc = "ready"
    /\ spc' = "sanitized"
    /\ local' = [local EXCEPT !.query = Sanitize(raw_query)]
    /\ UNCHANGED <<now, limiterVars, threadVars, cache, histVars, raw_query,
                   search_ret, fetched, last_result, shown>>

SanitizeAgain ==
    /\ spc = "sanitized"
    /\ spc' = "resanitized"
    /\ local' = [local EXCEPT !.query = Sanitize(local.query)]
    /\ UNCHANGED <<now, limiterVars, threadVars, cache, histVars, raw_query,
                   search_ret, fetched, last_result, shown>>

NextSanitize == SanitizeQuery \/ SanitizeAgain

SpecSanitize == InitSanitize /\ [][NextSanitize]_vars

----------------------------------------------------------------------------
(* Claims *)

CsPcs == {"acq_cs1", "acq_cs2"}
AcquirePcs == {"acq_enter", "acq_cs1", "acq_sleep", "acq_enter2", "acq_cs2"}

\* The value _add_tokens leaves in `tokens` at the current time, written out.
Refilled ==
    IF tokens + (now - last_update) * MAX_REQUESTS_PER_SECOND
         <= Capacity * OneToken
    THEN tokens + (now - last_update) * MAX_REQUESTS_PER_SECOND
    ELSE Capacity * OneToken

\* C1: every outbound HTTP request of _fetch_from_api is preceded by an
\* acquire call of the same fetch that returned success (it holds a token).
C1_EveryRequestHoldsToken ==
    \A i \in 1..Len(reqLog) : reqLog[i].token

\* C2: a fetch whose key is in the cache returns the stored payload, issues
\* no HTTP request and leaves the limiter untouched; a fetch that fails
\* adds no cache entry; an entry appears only with a successful exchange.
C2_CacheBypassAndPopulation ==
    [][ /\ \A t \in Threads :
             (pc[t] = "idle" /\ pc'[t] # "idle" /\ key'[t] \in DOMAIN cache)
             => /\ pc'[t] = "fetch_done"
                /\ fetch_ret'[t] = FetchOk(cache[key'[t]])
                /\ reqLog' = reqLog
                /\ acqLog' = acqLog
                /\ limiterVars' = limiterVars
        /\ \A t \in Threads :
             (pc[t] = "await" /\ pc'[t] = "fetch_done" /\ ~fetch_ret'[t].ok)
             => cache' = cache
        /\ \A k \in DOMAIN cache' :
             (k \notin DOMAIN cache)
             => \E t \in Threads :
                  /\ pc[t] = "await" /\ key[t] = k
                  /\ fetch_ret'[t].ok
                  /\ cache'[k] = fetch_ret'[t].data
      ]_vars

\* C2 witness: three fetches are over with only two requests issued (one
\* was served from the cache) and one of them failed, leaving no entry.
C2_Witness ==
    /\ calls = 3
    /\ Len(reqLog) = 2
    /\ \A t \in Threads : pc[t] \in {"idle", "fetch_done"}
    /\ Cardinality(DOMAIN cache) = 1
    /\ \E t \in Threads :
         /\ pc[t] = "fetch_done"
         /\ fetch_ret[t].err = "RateLimitExceededError"
         /\ key[t] \notin DOMAIN cache

\* C3: the bucket never holds less than zero or more than capacity tokens,
\* a thread inside a locked block of acquire holds the lock, and the limiter
\* state changes only in a step of the thread holding the lock.
C3_TokensBoundedUnderLock ==
    /\ [](0 <= tokens /\ tokens <= Capacity * OneToken)
    /\ [](\A t \in Threads : pc[t] \in CsPcs => lock = t)
    /\ [][ (tokens' # tokens \/ last_update' # last_update)
           => /\ lock \in Threads
              /\ pc[lock] \in CsPcs
              /\ pc'[lock] # pc[lock] ]_vars

\* C3 witness: a blocking caller is inside the second locked block with an
\* empty bucket while a non-blocking caller waits for the lock.
C3_Witness ==
    \E t, u \in Threads :
        /\ t # u
        /\ pc[t] = "acq_cs2" /\ blocking[t] /\ lock = t
        /\ pc[u] = "acq_enter" /\ ~blocking[u]
        /\ tokens = 0

\* Successful acquire calls decided in the closed time window [a, b].
SuccessesIn(a, b) ==
    {i \in 1..Len(acqLog) :
        acqLog[i].ok /\ a <= acqLog[i].at /\ acqLog[i].at <= b}

\* Thread t is the only caller there has been.
OnlyCaller(t) ==
    callers = {t}

\* C4: in any time window of length W at most capacity + rate * W acquire
\* calls succeed; the blocking acquires of a lone caller all succeed, two
\* successes being at least a second apart; the first acquire on the full
\* bucket succeeds and an acquire that follows a success with no time
\* elapsing fails.
C4_RateBound ==
    /\ \A a \in 0..now : \A b \in a..now :
         Cardinality(SuccessesIn(a, b)) * OneToken
            <= Capacity * OneToken + MAX_REQUESTS_PER_SECOND * (b - a)
    /\ \A t \in Threads :
         OnlyCaller(t)
         => \A i \in 1..Len(acqLog) : acqLog[i].blocking => acqLog[i].ok
    /\ \A i, j \in 1..Len(acqLog) :
         (i < j /\ acqLog[i].ok /\ acqLog[j].ok)
         => acqLog[j].at - acqLog[i].at >= TicksPerSec
    /\ Len(acqLog) >= 1 => acqLog[1].ok
    /\ \A i \in 1..(Len(acqLog) - 1) :
         (acqLog[i].ok /\ acqLog[i + 1].at = acqLog[i].at)
         => ~acqLog[i + 1].ok

\* C4 witness: one caller made two non-blocking acquires at the same
\* instant, which returned (true, false), and then a blocking acquire that
\* succeeded one second after the first success.
C4_Witness ==
    /\ Len(acqLog) = 3
    /\ \E t \in Threads : OnlyCaller(t)
    /\ ~acqLog[1].blocking /\ acqLog[1].ok
    /\ ~acqLog[2].blocking /\ ~acqLog[2].ok /\ acqLog[2].at = acqLog[1].at
    /\ acqLog[3].blocking /\ acqLog[3].ok
    /\ acqLog[3].at = acqLog[1].at + TicksPerSec

\* Position of a thread inside acquire: every step of the call moves on.
Rank(p) ==
    CASE p = "acq_enter" -> 1
      [] p = "acq_cs1" -> 2
      [] p = "acq_sleep" -> 3
      [] p = "acq_enter2" -> 4
      [] p = "acq_cs2" -> 5
      [] OTHER -> 6

\* C5: a blocking acquire that finds less than one token sleeps once, for
\* (1 - tokens) / rate, without holding the lock, then refills, tries once
\* more and returns that outcome; acquire never goes back to an earlier
\* point, never returns holding the lock, and every call returns.
C5_OneSleepOutsideLock ==
    /\ [](\A t \in Threads :
            /\ pc[t] \in {"acq_sleep", "idle"} => lock # t
            /\ pc[t] = "acq_sleep"
               => slept[t] = 1 /\ blocking[t]
            /\ pc[t] \in {"acq_enter2", "acq_cs2"} => slept[t] = 1
            /\ slept[t] <= 1)
    /\ [][ \A t \in Threads :
            /\ (pc[t] \in AcquirePcs /\ pc'[t] # pc[t])
               => Rank(pc'[t]) > Rank(pc[t])
            /\ (pc[t] = "acq_cs1" /\ pc'[t] = "acq_sleep")
               => /\ Refilled < OneToken
                  /\ tokens' = Refilled
                  /\ wait_time'[t] * MAX_REQUESTS_PER_SECOND
                        = OneToken - Refilled
            /\ (pc[t] = "acq_sleep" /\ pc'[t] # pc[t])
               => now >= sleep_from[t] + wait_time[t]
            /\ (pc[t] = "acq_cs2" /\ pc'[t] # pc[t])
               => /\ pc'[t] = "idle"
                  /\ acqLog'[Len(acqLog')].ok = (Refilled >= OneToken)
                  /\ tokens' = IF Refilled >= OneToken
                               THEN Refilled - OneToken ELSE Refilled
         ]_vars
    /\ \A t \in Threads : (pc[t] # "idle") ~> (pc[t] = "idle")

\* C5 witness: a blocking caller sleeps, having found half a token, while
\* another caller has entered and completed an acquire during that sleep.
C5_Witness ==
    \E t \in Threads :
        /\ pc[t] = "acq_sleep"
        /\ wait_time[t] >= 1
        /\ lock = NoThread
        /\ \E i \in 1..Len(acqLog) : acqLog[i].at > sleep_from[t]

\* A non-blocking acquire of thread t finds no token and returns failure.
NonBlockingFailure(t) ==
    /\ pc[t] = "acq_cs1"
    /\ ~blocking[t]
    /\ pc'[t] = "idle"
    /\ ~acqLog'[Len(acqLog')].ok

\* C6 as stated: a non-blocking acquire that finds no token leaves tokens
\* and the last-refill timestamp as they were before the call.
C6_NoSideEffect ==
    [][ \A t \in Threads :
          NonBlockingFailure(t)
          => tokens' = tokens /\ last_update' = last_update ]_vars

\* C6 amended: a non-blocking acquire that finds no token consumes none:
\* its only effect is the refill, which moves tokens up to
\* min(capacity, tokens + elapsed * rate), still below one token, and sets
\* the last-refill timestamp to the current time.
C6_OnlyRefill ==
    [][ \A t \in Threads :
          NonBlockingFailure(t)
          => /\ tokens' = Refilled
             /\ tokens' >= tokens
             /\ tokens' < OneToken
             /\ last_update' = now
             /\ (now = last_update
                 => tokens' = tokens /\ last_update' = last_update) ]_vars

\* C6 witness: the latest acquire was non-blocking and failed half a second
\* after the bucket was emptied, and the refill it made is in the state.
C6_Witness ==
    /\ Len(acqLog) >= 2
    /\ ~acqLog[Len(acqLog)].blocking
    /\ ~acqLog[Len(acqLog)].ok
    /\ acqLog[Len(acqLog)].at > acqLog[Len(acqLog) - 1].at
    /\ last_update = acqLog[Len(acqLog)].at
    /\ tokens > 0
    /\ \A t \in Threads : pc[t] = "idle"

----------------------------------------------------------------------------
(* Claims about AddressService.search *)

\* The search has ended by raising e.
SearchFailed(e) == spc = "done" /\ search_ret = Failed(e)

\* The search has called neither endpoint: no fetch call, no acquire, no
\* request.
NoNetworkCall ==
    /\ fetched = <<>>
    /\ pc[ServiceThread] = "idle"
    /\ callers = {}
    /\ acqLog = <<>>
    /\ reqLog = <<>>

\* C7, as stated: every raw query longer than the maximum fails with
\* ValidationError, without a network call or an acquire.
C7_RawTooLong ==
    (spc # "ready" /\ Len(raw_query) > MAX_QUERY_LENGTH)
        => (SearchFailed("ValidationError") /\ NoNetworkCall)

\* C7, amended: every raw query that is longer than the maximum once its
\* leading and trailing whitespace is removed fails with ValidationError,
\* without a network call or an acquire.
C7_TrimmedTooLong ==
    (spc # "ready" /\ Len(Strip(raw_query)) > MAX_QUERY_LENGTH)
        => (SearchFailed("ValidationError") /\ NoNetworkCall)

C7_Witness ==
    /\ SearchFailed("ValidationError")
    /\ NoNetworkCall
    /\ Len(Strip(raw_query)) = MAX_QUERY_LENGTH + 1

\* Nothing but whitespace.
Blanks(s) == \A i \in 1..Len(s) : s[i] \in WsChars

\* C8: every raw query that is empty, whitespace-only or shorter than the
\* minimum fails with ValidationError, and no network call is made.
C8_EmptyRejected ==
    (spc # "ready" /\ (Blanks(raw_query) \/ Len(raw_query) < MIN_QUERY_LENGTH))
        => (SearchFailed("ValidationError") /\ NoNetworkCall)

C8_Witness ==
    /\ SearchFailed("ValidationError")
    /\ NoNetworkCall
    /\ raw_query # <<>>
    /\ Blanks(raw_query)

\* x < n and x > n for a float x and an integer n
Below(x, n) ==
    IF x.neg THEN x.ip > -n \/ (x.ip = -n /\ x.fr # <<>>)
    ELSE x.ip < n

Above(x, n) ==
    IF x.neg THEN x.ip < -n
    ELSE x.ip > n \/ (x.ip = n /\ x.fr # <<>>)

\* The two numbers of a match of the bare pattern, as floats; whether the
\* first is a latitude and the second a longitude.
LatOf(m) == ParseFloat(m.g1)
LngOf(m) == ParseFloat(m.g2)

InRangePair(m) ==
    /\ ~Below(LatOf(m), MIN_LATITUDE) /\ ~Above(LatOf(m), MAX_LATITUDE)
    /\ ~Below(LngOf(m), MIN_LONGITUDE) /\ ~Above(LngOf(m), MAX_LONGITUDE)

\* The raw query matches the bare pattern, with a value out of range.
BadPair(m) == m.hit /\ ~InRangePair(m)

\* C9, as stated: every input that matches the bare pattern with a latitude
\* or a longitude out of range fails with InvalidCoordinatesError, and
\* neither endpoint is called.
C9_OutOfRangeRejected ==
    (spc # "ready" /\ BadPair(MatchBare(raw_query)))
        => (SearchFailed("InvalidCoordinatesError") /\ NoNetworkCall)

\* C9, amended: for every such input neither endpoint is called, and the
\* search fails with InvalidCoordinatesError if the trimmed input is at most
\* the maximum long, with ValidationError if it is longer.
C9_OutOfRangeNoCall ==
    (spc # "ready" /\ BadPair(MatchBare(raw_query)))
        => /\ NoNetworkCall
           /\ SearchFailed(IF Len(Strip(raw_query)) <= MAX_QUERY_LENGTH
                           THEN "InvalidCoordinatesError"
                           ELSE "ValidationError")

C9_Witness ==
    /\ SearchFailed("InvalidCoordinatesError")
    /\ NoNetworkCall
    /\ MatchBare(raw_query).hit
    /\ ~Above(LatOf(MatchBare(raw_query)), MAX_LATITUDE)
    /\ Above(LngOf(MatchBare(raw_query)), MAX_LONGITUDE)

\* The raw query is "<lat>, <lon>" with both values in range.
GoodPair(raw, m) ==
    /\ m.hit
    /\ raw = m.g1 \o <<",", " ">> \o m.g2
    /\ InRangePair(m)

\* A reverse answer with a display name whose address, if any, is an object.
WellFormed(d) ==
    /\ d.type = "dict"
    /\ d.display_name # None
    /\ d.address.kind # "null"

\* One LocationData with the coordinates of the match.
OneResultAt(ret, m) ==
    /\ ret.kind = "ok"
    /\ Len(ret.results) = 1
    /\ IsNumeric(ret.results[1].lat)
    /\ IsNumeric(ret.results[1].lng)
    /\ FloatEq(ParseFloat(ret.results[1].lat), LatOf(m))
    /\ FloatEq(ParseFloat(ret.results[1].lng), LngOf(m))

\* The search of a pair takes the reverse flow.
ReverseFlow ==
    /\ spc \in {"reverse", "done"}
    /\ fetched = <<OSM_REVERSE_URL>>

\* The reverse call returns a well-formed payload to the search of pair m.
ReverseAnswered(m) ==
    /\ spc = "reverse"
    /\ spc' = "done"
    /\ fetch_ret[ServiceThread].ok
    /\ WellFormed(fetch_ret[ServiceThread].data)

\* C10, as stated: every valid pair "<lat>, <lon>" takes the reverse flow,
\* the search endpoint is not called, and a well-formed reverse answer
\* gives exactly one LocationData with the latitude and longitude put in.
C10_ValidPairReversed ==
    /\ [](GoodPair(raw_query, MatchBare(raw_query)) => ReverseFlow)
    /\ [][(GoodPair(raw_query, MatchBare(raw_query))
            /\ ReverseAnswered(MatchBare(raw_query)))
          => OneResultAt(search_ret', MatchBare(raw_query))]_vars

\* C10, amended: the same for every valid pair "<lat>, <lon>" of numbers
\* in the format of the bare pattern that is at most the maximum long; a
\* longer one fails with ValidationError and calls no endpoint.
C10_ShortValidPairReversed ==
    /\ [](GoodPair(raw_query, MatchBare(raw_query))
            => IF Len(raw_query) <= MAX_QUERY_LENGTH THEN ReverseFlow
               ELSE SearchFailed("ValidationError") /\ NoNetworkCall)
    /\ [][(GoodPair(raw_query, MatchBare(raw_query))
            /\ ReverseAnswered(MatchBare(raw_query)))
          => OneResultAt(search_ret', MatchBare(raw_query))]_vars

\* A negative latitude written without fraction comes back as one result.
C10_Witness ==
    /\ spc = "done"
    /\ GoodPair(raw_query, MatchBare(raw_query))
    /\ OneResultAt(search_ret, MatchBare(raw_query))
    /\ LatOf(MatchBare(raw_query)).neg
    /\ search_ret.results[1].lat # MatchBare(raw_query).g1
    /\ reqLog # <<>>

\* The raw query is a labeled pair with both values in range.
GoodLabeled(m) == m.hit /\ InRangePair(m)

\* C11: every raw query of the labeled form with a latitude and a longitude
\* in range is resolved through the reverse flow: the reverse endpoint is
\* called and the search endpoint is not.
C11_LabeledReversed ==
    (spc # "ready" /\ GoodLabeled(MatchLabeled(raw_query))) => ReverseFlow

\* What the search does with it: the separators are blanked, no pattern
\* matches and the search endpoint is asked for "lat 31.5, lon 35".
C11_LabeledSearched ==
    (spc # "ready" /\ GoodLabeled(MatchLabeled(raw_query)))
        => /\ ~FirstMatch(Sanitize(Strip(raw_query))).hit
           /\ fetched # <<>>
           /\ fetched[1] = OSM_SEARCH_URL

\* C12: sanitize is idempotent: sanitizing a sanitized string leaves it as
\* it is, for every string.
C12_SanitizeIdempotent ==
    [][spc = "sanitized" => local'.query = local.query]_vars

\* A string that sanitize changed without emptying it has been sanitized
\* twice.
C12_Witness ==
    /\ spc = "resanitized"
    /\ local.query # raw_query
    /\ local.query # <<>>
    /\ \E i \in 1..Len(raw_query) : ~Whitelisted(raw_query[i])

\* The latitude and the longitude of a result parse as numbers within the
\* ranges.
ValidPosition(r) ==
    /\ IsNumeric(r.lat)
    /\ IsNumeric(r.lng)
    /\ ~Below(ParseFloat(r.lat), MIN_LATITUDE)
    /\ ~Above(ParseFloat(r.lat), MAX_LATITUDE)
    /\ ~Below(ParseFloat(r.lng), MIN_LONGITUDE)
    /\ ~Above(ParseFloat(r.lng), MAX_LONGITUDE)

\* C13: every LocationData that search returns, from either flow and for
\* any payload of the upstream service, has a latitude and a longitude that
\* parse as numbers in [-90, 90] and [-180, 180].
C13_ResultsInRange ==
    (spc = "done" /\ search_ret.kind = "ok")
        => \A i \in 1..Len(search_ret.results) :
              ValidPosition(search_ret.results[i])

\* C14: every LocationData that search returns, from the reverse flow or the
\* search flow, has a postal code that is a non-empty value or the sentinel,
\* never the empty string.
C14_PostcodeNeverEmpty ==
    (spc = "done" /\ search_ret.kind = "ok")
        => \A i \in 1..Len(search_ret.results) :
              search_ret.results[i].zip_code # ""

\* C15: search returns a result sequence or fails with one of the six
\* kinds derived from GeoServiceException, and an exception of any other
\* class raised inside it reaches the caller only as APIConnectionError.
C15_ClosedErrorSurface ==
    spc = "done"
        => /\ \/ search_ret.kind = "ok"
              \/ search_ret.kind = "error"
                    /\ search_ret.err \in GeoServiceExceptions
           /\ search_ret.cause # "none"
                => /\ search_ret.err = "APIConnectionError"
                   /\ search_ret.cause \notin GeoServiceExceptions

\* The search loop meets an item whose address is null: the AttributeError
\* reaches the caller as APIConnectionError.
C15_Witness ==
    /\ spc = "done"
    /\ search_ret.err = "APIConnectionError"
    /\ search_ret.cause = "AttributeError"
    /\ fetched = <<OSM_SEARCH_URL>>

\* C16: whenever search fails with ValidationError, no fetch call was made
\* during that search.
C16_ValidationErrorBeforeFetch ==
    SearchFailed("ValidationError") => fetched = <<>>

\* The loop of search is at an item.
AtItem == spc = "items" /\ local.item <= Len(local.search_results)

\* The item the loop is at.
CurrentItem == local.search_results[local.item]

\* An item with latitude, longitude and display name.
Located(it) ==
    /\ TruthyText(it.lat)
    /\ TruthyText(it.lon)
    /\ TruthyStr(it.display_name)

\* An item without postal code: no address, an address without postcode or
\* with an empty one, or an address that is null.
NoPostcode(it) == ~TruthyStr(it.address.postcode)

\* The postcode that the reverse call returned, or the sentinel.
PostcodeReturned(ret) ==
    IF ~ret.ok THEN EmDash
    ELSE IF ret.data.type # "dict" THEN EmDash
    ELSE IF ret.data.address.kind # "dict" THEN EmDash
    ELSE IF ~TruthyStr(ret.data.address.postcode) THEN EmDash
    ELSE ret.data.address.postcode[1]

\* One reverse call is made for the item and nothing else happens.
SupplementaryCall ==
    /\ spc' = "enrich"
    /\ fetched' = Append(fetched, OSM_REVERSE_URL)
    /\ local' = local

\* The loop goes on to the next item with one more result, of the item it
\* was at and with the postcode zip, without another call.
EmittedWith(zip) ==
    /\ spc' = "items"
    /\ fetched' = fetched
    /\ local'.item = local.item + 1
    /\ local'.search_results = local.search_results
    /\ local'.results =
          Append(local.results,
                 LocationData(local.query, CurrentItem.display_name[1], zip,
                              CurrentItem.lat[1], CurrentItem.lon[1]))

\* The steps of search itself change these; the steps of its fetch calls,
\* of the cache and of the clock leave them alone.
searchStep == <<spc, local>>

EmptyPayload(d) == d \in {JsonList(<<>>), JsonEmptyDict, JsonNull}

\* The search is waiting for its primary call: the search call of the
\* search flow, the reverse call of the reverse flow.
AtPrimaryCall == spc \in {"search", "reverse"}

\* C18: when the primary call of a search succeeds with an empty or absent
\* payload, the search fails with LocationNotFoundError.
C18_EmptyPayloadNotFound ==
    [][(/\ AtPrimaryCall
        /\ fetch_ret[ServiceThread].ok
        /\ EmptyPayload(fetch_ret[ServiceThread].data))
        => (spc' = "done"
            /\ search_ret' = Failed("LocationNotFoundError"))]_searchStep

\* The reverse endpoint answered a pair with the empty object.
C18_Witness ==
    /\ SearchFailed("LocationNotFoundError")
    /\ fetched = <<OSM_REVERSE_URL>>
    /\ \E k \in DOMAIN cache : cache[k] = JsonEmptyDict

\* C19: the sequence that search returns is never empty and each of its
\* elements has status "OK"; when the loop ends without a result the search
\* fails with LocationNotFoundError.
C19_NeverEmptyResult ==
    /\ [](spc = "done" /\ search_ret.kind = "ok"
            => /\ search_ret.results # <<>>
               /\ \A i \in 1..Len(search_ret.results) :
                     search_ret.results[i].status = "OK")
    /\ [][(/\ spc = "items"
            /\ local.item > Len(local.search_results)
            /\ local.results = <<>>)
            => (spc' = "done"
                /\ search_ret' = Failed("LocationNotFoundError"))]_searchStep

\* The search endpoint answered with items, none of them with coordinates.
C19_Witness ==
    /\ SearchFailed("LocationNotFoundError")
    /\ fetched = <<OSM_SEARCH_URL>>
    /\ \E k \in DOMAIN cache :
          /\ cache[k].type = "list"
          /\ cache[k].items # <<>>
          /\ \A i \in 1..Len(cache[k].items) : cache[k].items[i].lat = None

\* The coordinate text t of a result is that of an item: as it came, or
\* as the same number.
SameNumber(t, u) ==
    \/ t = u
    \/ IsNumeric(t) /\ IsNumeric(u) /\ FloatEq(ParseFloat(t), ParseFloat(u))

\* The result r is at the coordinates of the item it.
ProducedBy(r, it) ==
    /\ TruthyText(it.lat)
    /\ TruthyText(it.lon)
    /\ SameNumber(r.lat, it.lat[1])
    /\ SameNumber(r.lng, it.lon[1])

\* The results rs come from items of its, in the order of its.
InOrder(rs, its) ==
    \E f \in [1..Len(rs) -> 1..Len(its)] :
        /\ \A i, j \in 1..Len(rs) : i < j => f[i] < f[j]
        /\ \A i \in 1..Len(rs) : ProducedBy(rs[i], its[f[i]])

\* The item the loop is at lacks its latitude or its longitude.
Unlocated(it) == ~(TruthyText(it.lat) /\ TruthyText(it.lon))

\* The loop passes to the next item with nothing else changed and no call.
Skipped ==
    /\ spc' = "items"
    /\ local' = [local EXCEPT !.item = @ + 1]
    /\ fetched' = fetched
    /\ pc' = pc

\* The results that the search flow returns are in the order of the items.
ReturnedInOrder ==
    (spc = "items" /\ spc' = "done" /\ search_ret'.kind = "ok")
        => InOrder(search_ret'.results, local.search_results)

PrimaryStatus(s) ==
    /\ AtPrimaryCall
    /\ answer[ServiceThread].kind = "http"
    /\ answer[ServiceThread].status = s

\* The search ends with the exception e carrying the status code sc, after
\* the one request it made.
FailsAtOnce(e, sc) ==
    /\ spc' = "done"
    /\ search_ret' = [Failed(e) EXCEPT !.status_code = sc]
    /\ reqLog' = reqLog
    /\ Len(reqLog) = 1
    /\ Len(fetched') = 1

\* A 429 and a timeout of the primary call.
LimitAndTimeout ==
    /\ PrimaryStatus(429) => FailsAtOnce("RateLimitExceededError", None)
    /\ (AtPrimaryCall /\ answer[ServiceThread].kind = "timeout")
          => FailsAtOnce("APIConnectionError", None)

BodyNotJson(t) ==
    /\ pc[t] = "fetch_done"
    /\ answer[t].kind = "http"
    /\ answer[t].status \in 200..299
    /\ ~answer[t].json

\* C22: when the upstream answers with a 2xx status and a body that is not
\* valid JSON, _fetch_from_api fails with InvalidResponseError and not
\* with APIConnectionError.
C22_BadBodyInvalidResponse ==
    \A t \in Threads :
        BodyNotJson(t) => fetch_ret[t].err = "InvalidResponseError"

\* What the call does: it fails with APIConnectionError without status.
C22_BadBodyConnectionError ==
    \A t \in Threads :
        BodyNotJson(t) => fetch_ret[t] = FetchErr("APIConnectionError", None)

\* C23: every call that search makes to the search endpoint carries a
\* parameter q of at least the minimum and at most the maximum length; it
\* is never the empty string.
C23_SearchQueryWithinLength ==
    key[ServiceThread].url = OSM_SEARCH_URL
        => /\ Len(key[ServiceThread].q) >= MIN_QUERY_LENGTH
           /\ Len(key[ServiceThread].q) <= MAX_QUERY_LENGTH

\* What holds: q is the sanitized query, at most as long as the trimmed
\* raw query, which is within the lengths.
C23_SearchQueryAtMostTrimmed ==
    key[ServiceThread].url = OSM_SEARCH_URL
        => /\ key[ServiceThread].q = Sanitize(Strip(raw_query))
           /\ Len(key[ServiceThread].q) <= Len(Strip(raw_query))
           /\ Len(Strip(raw_query)) >= MIN_QUERY_LENGTH
           /\ Len(Strip(raw_query)) <= MAX_QUERY_LENGTH

\* An item with latitude and longitude but no display name, whose address
\* can be read.
Nameless(it) ==
    /\ TruthyText(it.lat)
    /\ TruthyText(it.lon)
    /\ ~TruthyStr(it.display_name)
    /\ it.address.kind # "null"

\* The error with which the reverse geocoding of the fallback fails after
\* its fetch call returned ret.
FallbackError(ret) ==
    IF ~ret.ok THEN ret.err
    ELSE IF EmptyPayload(ret.data) THEN "LocationNotFoundError"
    ELSE IF ret.data.type # "dict" THEN "ValidationError"
    ELSE IF ret.data.display_name = None THEN "ValidationError"
    ELSE "APIConnectionError"

\* The search ends with the error e and returns no result.
FailsWith(e) ==
    /\ spc' = "done"
    /\ search_ret'.kind = "error"
    /\ search_ret'.err = e
    /\ search_ret'.results = <<>>

\* The fallback fails before its fetch call: the coordinates of the item
\* are no numbers, or out of range.
BadCoordinates(it) ==
    IF IsNumeric(it.lat[1]) /\ IsNumeric(it.lon[1])
    THEN ~InRangePair([g1 |-> it.lat[1], g2 |-> it.lon[1]])
    ELSE TRUE

\* The error of such an item: the ValueError of float() reaches the caller
\* as APIConnectionError.
CoordinatesError(it) ==
    IF IsNumeric(it.lat[1]) /\ IsNumeric(it.lon[1])
    THEN "InvalidCoordinatesError" ELSE "APIConnectionError"

\* C24: when the reverse geocoding of an item with latitude and longitude
\* but no display name fails, the whole search fails with that error and
\* the results of the earlier items are not returned.
C24_FallbackFailureFailsSearch ==
    /\ [][(/\ spc = "fallback"
            /\ \/ ~fetch_ret[ServiceThread].ok
               \/ ~WellFormed(fetch_ret[ServiceThread].data))
            => (/\ FailsWith(FallbackError(fetch_ret[ServiceThread]))
                /\ search_ret'.status_code
                      = fetch_ret[ServiceThread].status_code)]_searchStep
    /\ [][(AtItem /\ Nameless(CurrentItem) /\ BadCoordinates(CurrentItem))
            => (FailsWith(CoordinatesError(CurrentItem))
                /\ fetched' = fetched)]_searchStep

\* Of two items the first was complete and the reverse call for the
\* second, which has no display name, was answered 429: the search failed.
C24_Witness ==
    /\ SearchFailed("RateLimitExceededError")
    /\ fetched = <<OSM_SEARCH_URL, OSM_REVERSE_URL>>
    /\ \E k \in DOMAIN cache :
          /\ cache[k].type = "list"
          /\ Len(cache[k].items) = 2
          /\ Located(cache[k].items[1])
          /\ ~NoPostcode(cache[k].items[1])
          /\ Nameless(cache[k].items[2])

\* A submission has completed: its search is over and the page is drawn.
Completed == spc = "ready" /\ shown # <<>>

\* C25: in a session of several submissions, once a submission has
\* completed last_result is the first element of what its search returned
\* if the search succeeded and None if it failed, and it is None while a
\* submission is under way; so the result of an earlier submission is not
\* on display after a later one that failed.
C25_LastResultOfLatestSubmission ==
    /\ spc # "ready" => last_result = None
    /\ Completed =>
          /\ last_result = IF search_ret.kind = "ok"
                           THEN Some(search_ret.results[1])
                           ELSE None
          /\ shown[Len(shown)] = last_result

\* Reached: the first submission put a result on display, the second one
\* failed and nothing is on display.
C25_Witness ==
    /\ Completed
    /\ Len(shown) = 2
    /\ shown[1] # None
    /\ search_ret.kind = "error"
    /\ last_result = None

====
